---- MODULE Spec2Model ----
(***************************************************************************)
(* Model of cheny-alf/delayqueue (src/delayqueue.go): a delayed-message    *)
(* queue kept in six Redis keys and driven by a periodic consumer task.    *)
(*                                                                         *)
(* The store is the Redis server: it outlives every handle, and            *)
(* NewDelayQueue (lines 35-63) neither reads nor clears it.  The state     *)
(* after construction is therefore an empty handle attached to whatever    *)
(* the six keys of the queue name hold; Init draws those contents from     *)
(* the well-formed lifecycle states of a message (InitSlots), the empty    *)
(* store included.                                                         *)
(*                                                                         *)
(* One action is one store round trip (a command or a whole script, which  *)
(* Redis runs atomically) or one step of the Go scheduling (select,        *)
(* channel send).  The clock is time.Now().Unix(), in seconds.             *)
(***************************************************************************)
EXTENDS Integers, Sequences, FiniteSets, TLC

\* ---------------------------------------------------------------- bounds
MaxId == 2
MaxTime == 2
MaxRetry == 1
MaxFetchLimit == 2
MaxFaults == 1

\* ------------------------------------------------------ program constants
\* q.msgTTL, in seconds (time.Hour)
msgTTL == 3600
\* q.maxConsumeDuration, in seconds, as configured by WithMaxConsumeDuration
maxConsumeDuration == 1

Ids == 1..MaxId
Handles == {"h1", "h2"}
NoId == 0
\* a member without score, a field without value, a key without payload
None == -1

VARIABLES
    now,        \* time.Now().Unix()
    pending,    \* dp:<q>:pending   sorted set: id -> score (delivery time)
    ready,      \* dp:<q>:ready     list, head first
    unack,      \* dp:<q>:unack     sorted set: id -> score (ack deadline)
    retry,      \* dp:<q>:retry     list, head first
    retryCnt,   \* dp:<q>:retry:cnt hash: id -> remaining retries
    garbage,    \* dp:<q>:garbage   set
    msg,        \* dp:<q>:msg:<id>  payload key: id -> expiry time, None when deleted
    sendPc,     \* SendScheduleMsg call that owns the id: next store write
    sendT,      \* its argument t, in unix seconds
    sendN,      \* its retryCount
    fetchLimit, \* q.fetchLimit
    phase,      \* caller's use of the handle: new, started, closeSent, stopped
    closeCh,    \* q.close: number of buffered signals (capacity 1)
    tickC,      \* q.ticker.C holds a tick after the ticker was stopped
    pc,         \* consumer task of the handle: next step
    loop,       \* which drain loop of consume the task is in
    idStr,      \* consume: idStr of the current iteration
    fetchCount, \* consume: fetchCount
    msgIds,     \* garbageCollect: msgIds
    notified,   \* values sent on done0
    faults,     \* store commands that failed so far
    delivered,  \* history: invocations of q.cb per id
    acked,      \* history: ids that ack removed from unack (ZRem)
    collected,  \* history: ids that garbageCollect removed from garbage (SRem)
    dueAtT1,    \* history: ids that were due in pending when this cycle ran pending2Ready
    hitLimit,   \* history: a drain loop of this cycle stopped on fetchLimit
    nackAge,    \* history: 0 none, 1 nacked in the running cycle, 2 in the cycle before
    nackCnt,    \* history: retryCnt of the id when it was last nacked, until q.cb gets it again
    dropped,    \* history: ids acked without callback because the payload was missing
    sigInFlight \* history: handles whose close signal was sent while q.cb was running

store == <<pending, ready, unack, retry, retryCnt, garbage, msg>>
sender == <<sendPc, sendT, sendN>>
sched == <<phase, closeCh, tickC, notified>>
locals == <<loop, idStr, fetchCount, msgIds>>
hist == <<delivered, acked, collected, dueAtT1, hitLimit, nackAge, nackCnt, dropped,
         sigInFlight>>
vars == <<now, store, sender, fetchLimit, sched, pc, locals, faults, hist>>

\* ------------------------------------------------------- store primitives
Occ(s, x) == Cardinality({i \in 1..Len(s) : s[i] = x})

RECURSIVE Reverse(_)
Reverse(s) == IF s = <<>> THEN <<>> ELSE Reverse(Tail(s)) \o <<Head(s)>>

RECURSIVE Ascending(_)
Ascending(S) ==
    IF S = {} THEN <<>>
    ELSE LET m == CHOOSE i \in S : \A j \in S : i <= j
         IN <<m>> \o Ascending(S \ {m})

\* members of a sorted set in Redis order: by score, then by member
RECURSIVE SortByScore(_, _)
SortByScore(z, S) ==
    IF S = {} THEN <<>>
    ELSE LET m == CHOOSE i \in S :
                    \A j \in S : z[i] < z[j] \/ (z[i] = z[j] /\ i <= j)
         IN <<m>> \o SortByScore(z, S \ {m})

\* ZRangeByScore key 0 max
ZRangeByScore(z, max) ==
    SortByScore(z, {i \in Ids : z[i] >= 0 /\ z[i] <= max})

\* ZRemRangeByScore key 0 max
ZRemRangeByScore(z, max) ==
    [i \in Ids |-> IF z[i] >= 0 /\ z[i] <= max THEN None ELSE z[i]]

\* LPush key v1 v2 ...: each value in turn becomes the head
LPush(list, vals) == Reverse(vals) \o list

\* ZRem key member
ZRem(z, id) == [z EXCEPT ![id] = None]

\* ZAdd key score member
ZAdd(z, score, id) == [z EXCEPT ![id] = score]

\* Del of the payload keys of ids; a missing key is not an error
Del(m, ids) == [i \in Ids |-> IF i \in ids THEN None ELSE m[i]]

\* HDel left out: the retry:cnt entry stays
HDelSkipped(c, id) == c

\* HDel key field
HDel(c, id) == [c EXCEPT ![id] = None]

\* Get of the payload key: the key is there until deleted or expired
PayloadExists(id) == msg[id] # None /\ now < msg[id]

IsZSetKey(k) == k \in {"pending", "unack"}

\* a Redis key exists while its collection is not empty
KeyExists(k) ==
    CASE k = "pending" -> \E i \in Ids : pending[i] # None
      [] k = "unack"   -> \E i \in Ids : unack[i] # None
      [] k = "ready"   -> ready # <<>>
      [] k = "retry"   -> retry # <<>>
      [] OTHER         -> FALSE

ZSetAt(k) == IF k = "pending" THEN pending ELSE unack

\* --------------------------------------------------------------- scripts
\* pending2ReadyScript taking every id of pending whatever its score, with the
\* keys in their places
pending2ReadyAnyScore(KEYS, ARGV1) ==
    LET all == SortByScore(pending, {i \in Ids : pending[i] # None})
    IN  IF all = <<>>
        THEN [err |-> FALSE, pending |-> pending, ready |-> ready]
        ELSE [err     |-> FALSE,
              pending |-> [i \in Ids |-> None],
              ready   |-> LPush(ready, all)]

\* pending2ReadyScript run with KEYS and ARGV[1]: it reads KEYS[2], pushes to
\* KEYS[3] and trims KEYS[1].  A command on a key of the wrong type, or on the
\* nil that KEYS[3] is when two keys are passed, raises and ends the script.
pending2ReadyScript(KEYS, ARGV1) ==
    LET same == [err |-> FALSE, pending |-> pending, ready |-> ready]
        src  == KEYS[2]
    IN  IF KeyExists(src) /\ ~IsZSetKey(src)
        THEN [same EXCEPT !.err = TRUE]
        ELSE LET msgs == IF KeyExists(src)
                         THEN ZRangeByScore(ZSetAt(src), ARGV1) ELSE <<>>
             IN  IF msgs = <<>> THEN same
                 ELSE IF Len(KEYS) >= 3 /\ KEYS[3] = "ready" /\ KEYS[1] = "pending"
                 THEN [err     |-> FALSE,
                       pending |-> ZRemRangeByScore(pending, ARGV1),
                       ready   |-> LPush(ready, msgs)]
                 ELSE [same EXCEPT !.err = TRUE]

\* ready2UnackScript reading the tail of the list without popping it
ready2UnackNoPop(list, retryTime) ==
    IF list = <<>>
    THEN [msg |-> NoId, list |-> list, unack |-> unack]
    ELSE LET m == list[Len(list)]
         IN  [msg |-> m, list |-> list, unack |-> ZAdd(unack, retryTime, m)]

\* ready2UnackScript on a list and the unack set: RPop, then ZAdd with ARGV[1]
ready2UnackScript(list, retryTime) ==
    IF list = <<>>
    THEN [msg |-> NoId, list |-> list, unack |-> unack]
    ELSE LET m == list[Len(list)]
         IN  [msg   |-> m,
              list  |-> SubSeq(list, 1, Len(list) - 1),
              unack |-> ZAdd(unack, retryTime, m)]

\* the loop of unack2RetryScript without the HIncrBy -1
RECURSIVE unack2RetryNoDecr(_, _, _, _)
unack2RetryNoDecr(msgs, cnt, rt, gb) ==
    IF msgs = <<>> THEN [err |-> FALSE, retryCnt |-> cnt, retry |-> rt, garbage |-> gb]
    ELSE LET k == Head(msgs)
         IN  IF cnt[k] = None
             THEN [err |-> TRUE, retryCnt |-> cnt, retry |-> rt, garbage |-> gb]
             ELSE IF cnt[k] > 0
             THEN unack2RetryNoDecr(Tail(msgs), cnt, LPush(rt, <<k>>), gb)
             ELSE unack2RetryNoDecr(Tail(msgs), [cnt EXCEPT ![k] = None],
                                    rt, gb \cup {k})

\* the loop of unack2RetryScript without the HDel of an exhausted count
RECURSIVE unack2RetryKeepsCount(_, _, _, _)
unack2RetryKeepsCount(msgs, cnt, rt, gb) ==
    IF msgs = <<>> THEN [err |-> FALSE, retryCnt |-> cnt, retry |-> rt, garbage |-> gb]
    ELSE LET k == Head(msgs)
         IN  IF cnt[k] = None
             THEN [err |-> TRUE, retryCnt |-> cnt, retry |-> rt, garbage |-> gb]
             ELSE IF cnt[k] > 0
             THEN unack2RetryKeepsCount(Tail(msgs), [cnt EXCEPT ![k] = @ - 1],
                                        LPush(rt, <<k>>), gb)
             ELSE unack2RetryKeepsCount(Tail(msgs), cnt, rt, gb \cup {k})

\* the for loop of unack2RetryScript over msgs; a missing count makes
\* tonumber(v) > 0 raise, which ends the script and keeps what it wrote so far
RECURSIVE unack2RetryLoop(_, _, _, _)
unack2RetryLoop(msgs, cnt, rt, gb) ==
    IF msgs = <<>> THEN [err |-> FALSE, retryCnt |-> cnt, retry |-> rt, garbage |-> gb]
    ELSE LET k == Head(msgs)
         IN  IF cnt[k] = None
             THEN [err |-> TRUE, retryCnt |-> cnt, retry |-> rt, garbage |-> gb]
             ELSE IF cnt[k] > 0
             THEN unack2RetryLoop(Tail(msgs), [cnt EXCEPT ![k] = @ - 1],
                                  LPush(rt, <<k>>), gb)
             ELSE unack2RetryLoop(Tail(msgs), [cnt EXCEPT ![k] = None],
                                  rt, gb \cup {k})

\* unack2RetryScript without its last line, the ZRemRangeByScore
unack2RetryNoTrim(ARGV1) ==
    LET msgs == ZRangeByScore(unack, ARGV1)
        r    == unack2RetryLoop(msgs, retryCnt, retry, garbage)
    IN  [err      |-> r.err,
         retryCnt |-> r.retryCnt,
         retry    |-> r.retry,
         garbage  |-> r.garbage,
         unack    |-> unack]

\* unack2RetryScript with ARGV[1]
unack2RetryScript(ARGV1) ==
    LET msgs == ZRangeByScore(unack, ARGV1)
        r    == unack2RetryLoop(msgs, retryCnt, retry, garbage)
    IN  [err      |-> r.err,
         retryCnt |-> r.retryCnt,
         retry    |-> r.retry,
         garbage  |-> r.garbage,
         unack    |-> IF r.err THEN unack ELSE ZRemRangeByScore(unack, ARGV1)]

\* ------------------------------------------------------------------ Init
\* what the store may hold for one id when the handles are constructed: the
\* states a message goes through after pending, its payload live, missing,
\* or about to expire
InitSlots ==
    {[pos |-> "none", cnt |-> None, exp |-> None, score |-> None]}
    \cup {[pos |-> "ready", cnt |-> c, exp |-> msgTTL, score |-> None] :
            c \in 0..MaxRetry}
    \cup {[pos |-> "unack", cnt |-> c, exp |-> msgTTL, score |-> 0] :
            c \in 0..MaxRetry}
    \cup {[pos |-> "retry", cnt |-> c, exp |-> e, score |-> None] :
            c \in 0..MaxRetry, e \in {None, msgTTL}}
    \cup {[pos |-> "retry", cnt |-> MaxRetry, exp |-> 1, score |-> None]}
    \cup {[pos |-> "garbage", cnt |-> None, exp |-> msgTTL, score |-> None]}

\* the messages waiting in retry, and no message
RetrySlots == {s \in InitSlots : s.pos \in {"none", "retry"} /\ s.exp # 1}

InitWith(slots, limits) ==
    \E f \in [Ids -> slots], fl \in limits :
        /\ now = 0
        /\ pending = [i \in Ids |-> None]
        /\ ready = Ascending({i \in Ids : f[i].pos = "ready"})
        /\ unack = [i \in Ids |-> IF f[i].pos = "unack" THEN f[i].score ELSE None]
        /\ retry = Ascending({i \in Ids : f[i].pos = "retry"})
        /\ retryCnt = [i \in Ids |-> f[i].cnt]
        /\ garbage = {i \in Ids : f[i].pos = "garbage"}
        /\ msg = [i \in Ids |-> f[i].exp]
        /\ sendPc = [i \in Ids |-> IF f[i].pos = "none" THEN "idle" ELSE "done"]
        /\ sendT = [i \in Ids |-> 0]
        /\ sendN = [i \in Ids |-> IF f[i].cnt = None THEN 0 ELSE f[i].cnt]
        /\ fetchLimit = fl
        /\ phase = [h \in Handles |-> "new"]
        /\ closeCh = [h \in Handles |-> 0]
        /\ tickC = [h \in Handles |-> FALSE]
        /\ pc = [h \in Handles |-> "off"]
        /\ loop = [h \in Handles |-> "none"]
        /\ idStr = [h \in Handles |-> NoId]
        /\ fetchCount = [h \in Handles |-> 0]
        /\ msgIds = [h \in Handles |-> {}]
        /\ notified = [h \in Handles |-> 0]
        /\ faults = 0
        /\ delivered = [i \in Ids |-> 0]
        /\ acked = {}
        /\ collected = {}
        /\ dueAtT1 = [h \in Handles |-> {}]
        /\ hitLimit = [h \in Handles |-> FALSE]
        /\ nackAge = [i \in Ids |-> 0]
        /\ nackCnt = [i \in Ids |-> None]
        /\ dropped = {}
        /\ sigInFlight = {}

Init == InitWith(InitSlots, 0..MaxFetchLimit)

\* a store of retries only, and the default of an unlimited fetch
InitRetry == InitWith(RetrySlots, {MaxFetchLimit})

\* ----------------------------------------------------------------- clock
Tick ==
    /\ now < MaxTime
    /\ now' = now + 1
    /\ UNCHANGED <<store, sender, fetchLimit, sched, pc, locals, faults, hist>>

\* -------------------------------------------------------------- producer
\* SendScheduleMsg up to its first store write: options, fresh id, Set of the
\* payload key with TTL t - now + msgTTL, that is, expiring at t + msgTTL
SendScheduleMsg(i) ==
    /\ sendPc[i] = "idle"
    /\ \E t \in {now, now + 1}, n \in 0..MaxRetry :
        /\ sendT' = [sendT EXCEPT ![i] = t]
        /\ sendN' = [sendN EXCEPT ![i] = n]
        /\ msg' = [msg EXCEPT ![i] = t + msgTTL]
    /\ sendPc' = [sendPc EXCEPT ![i] = "HSet"]
    /\ UNCHANGED <<now, pending, ready, unack, retry, retryCnt, garbage,
                   fetchLimit, sched, pc, locals, faults, hist>>

\* the pending entry written in the place of the retry:cnt entry
SendZAddFirst(i) ==
    /\ sendPc[i] = "HSet"
    /\ pending' = ZAdd(pending, sendT[i], i)
    /\ sendPc' = [sendPc EXCEPT ![i] = "ZAdd"]
    /\ UNCHANGED <<now, ready, unack, retry, retryCnt, garbage, msg, sendT, sendN,
                   fetchLimit, sched, pc, locals, faults, hist>>

\* HSet retryCountKey idStr retryCount
SendHSet(i) ==
    /\ sendPc[i] = "HSet"
    /\ retryCnt' = [retryCnt EXCEPT ![i] = sendN[i]]
    /\ sendPc' = [sendPc EXCEPT ![i] = "ZAdd"]
    /\ UNCHANGED <<now, pending, ready, unack, retry, garbage, msg, sendT, sendN,
                   fetchLimit, sched, pc, locals, faults, hist>>

\* ZAdd pendingKey t.Unix() idStr; return nil
SendZAdd(i) ==
    /\ sendPc[i] = "ZAdd"
    /\ pending' = ZAdd(pending, sendT[i], i)
    /\ sendPc' = [sendPc EXCEPT ![i] = "done"]
    /\ UNCHANGED <<now, ready, unack, retry, retryCnt, garbage, msg, sendT, sendN,
                   fetchLimit, sched, pc, locals, faults, hist>>

\* one of the three writes fails: SendScheduleMsg returns the error
SendError(i) ==
    /\ sendPc[i] \in {"idle", "HSet", "ZAdd"}
    /\ faults < MaxFaults
    /\ faults' = faults + 1
    /\ sendPc' = [sendPc EXCEPT ![i] = "failed"]
    /\ sendT' = [sendT EXCEPT ![i] = 0]
    /\ sendN' = [sendN EXCEPT ![i] = 0]
    /\ UNCHANGED <<now, store, fetchLimit, sched, pc, locals, hist>>

\* ------------------------------------------------------------- scheduler
\* the task's locals: where it is, and consume's variables
Goto(h, p, l, i, c, m) ==
    /\ pc' = [pc EXCEPT ![h] = p]
    /\ loop' = [loop EXCEPT ![h] = l]
    /\ idStr' = [idStr EXCEPT ![h] = i]
    /\ fetchCount' = [fetchCount EXCEPT ![h] = c]
    /\ msgIds' = [msgIds EXCEPT ![h] = m]

\* consume returns (nil or an error): back to the select of the ticker loop
Return(h) ==
    /\ Goto(h, "select", "none", NoId, 0, {})
    /\ dueAtT1' = [dueAtT1 EXCEPT ![h] = {}]

StartConsume(h) ==
    /\ phase[h] = "new"
    /\ phase' = [phase EXCEPT ![h] = "started"]
    /\ pc' = [pc EXCEPT ![h] = "select"]
    /\ UNCHANGED <<now, store, sender, fetchLimit, closeCh, tickC, notified,
                   locals, faults, hist>>

\* StopConsume, first statement: q.close <- struct{}{}
StopConsume(h) ==
    /\ phase[h] = "started"
    /\ closeCh[h] = 0
    /\ closeCh' = [closeCh EXCEPT ![h] = 1]
    /\ phase' = [phase EXCEPT ![h] = "closeSent"]
    /\ sigInFlight' = IF pc[h] = "cb" THEN sigInFlight \cup {h} ELSE sigInFlight
    /\ UNCHANGED <<now, store, sender, fetchLimit, tickC, notified, pc, locals,
                   faults, delivered, acked, collected, dueAtT1, hitLimit,
                   nackAge, nackCnt, dropped>>

\* StopConsume, second statement: q.ticker.Stop(); a tick sent before may
\* still sit in q.ticker.C
TickerStop(h) ==
    /\ phase[h] = "closeSent"
    /\ phase' = [phase EXCEPT ![h] = "stopped"]
    /\ \E b \in BOOLEAN : tickC' = [tickC EXCEPT ![h] = b]
    /\ UNCHANGED <<now, store, sender, fetchLimit, closeCh, notified, pc, locals,
                   faults, hist>>

\* case <-q.ticker.C: a running ticker delivers a tick sooner or later
SelectTick(h) ==
    /\ pc[h] = "select"
    /\ phase[h] \in {"started", "closeSent"} \/ tickC[h]
    /\ tickC' = [tickC EXCEPT ![h] = FALSE]
    /\ pc' = [pc EXCEPT ![h] = "pending2Ready"]
    /\ hitLimit' = [hitLimit EXCEPT ![h] = FALSE]
    /\ nackAge' = [i \in Ids |-> IF nackAge[i] = 1 THEN 2 ELSE nackAge[i]]
    /\ UNCHANGED <<now, store, sender, fetchLimit, phase, closeCh, notified,
                   locals, faults, delivered, acked, collected, dueAtT1, nackCnt, dropped, sigInFlight>>

\* the close signal taken wherever the task is, the cycle in flight abandoned
SelectCloseAnywhere(h) ==
    /\ pc[h] \notin {"off", "notify", "exited"}
    /\ closeCh[h] = 1
    /\ closeCh' = [closeCh EXCEPT ![h] = 0]
    /\ pc' = [pc EXCEPT ![h] = "notify"]
    /\ UNCHANGED <<now, store, sender, fetchLimit, phase, tickC, notified,
                   locals, faults, hist>>

\* case <-q.close: break tickerLoop
SelectClose(h) ==
    /\ pc[h] = "select"
    /\ closeCh[h] = 1
    /\ closeCh' = [closeCh EXCEPT ![h] = 0]
    /\ pc' = [pc EXCEPT ![h] = "notify"]
    /\ UNCHANGED <<now, store, sender, fetchLimit, phase, tickC, notified,
                   locals, faults, hist>>

\* done0 <- struct{}{}, received by the caller of StartConsume
SendDone(h) ==
    /\ pc[h] = "notify"
    /\ notified' = [notified EXCEPT ![h] = @ + 1]
    /\ pc' = [pc EXCEPT ![h] = "exited"]
    /\ UNCHANGED <<now, store, sender, fetchLimit, phase, closeCh, tickC,
                   locals, faults, hist>>

\* ---------------------------------------------------------------- consume
\* store calls of consume whose error makes consume return
CheckedCalls ==
    {"pending2Ready", "ready2Unack", "callback", "ackZRem", "nack",
     "unack2Retry", "gcSMembers", "gcDel", "gcSRem", "retry2Unack"}

\* the end of one iteration of a drain loop: break on fetchLimit, or go on
Continue(h) ==
    IF fetchCount[h] >= fetchLimit
    THEN /\ hitLimit' = [hitLimit EXCEPT ![h] = TRUE]
         /\ IF loop[h] = "ready"
            THEN /\ Goto(h, "unack2Retry", "none", NoId, 0, {})
                 /\ UNCHANGED dueAtT1
            ELSE Return(h)
    ELSE /\ Goto(h, IF loop[h] = "ready" THEN "ready2Unack" ELSE "retry2Unack",
                 loop[h], NoId, fetchCount[h], {})
         /\ UNCHANGED <<hitLimit, dueAtT1>>

\* pending2Ready: Eval of pending2ReadyScript with keys {pendingKey, readyKey}
pending2Ready(h) ==
    /\ pc[h] = "pending2Ready"
    /\ LET r == pending2ReadyScript(<<"pending", "ready">>, now)
       IN  /\ pending' = r.pending
           /\ ready' = r.ready
           /\ IF r.err
              THEN Return(h)
              ELSE /\ Goto(h, "ready2Unack", "ready", NoId, 0, {})
                   /\ dueAtT1' = [dueAtT1 EXCEPT ![h] =
                          {i \in Ids : pending[i] # None /\ pending[i] <= now}]
    /\ UNCHANGED <<now, unack, retry, retryCnt, garbage, msg, sender, fetchLimit,
                   sched, faults, delivered, acked, collected, hitLimit, nackAge, nackCnt, dropped, sigInFlight>>

\* ready2Unack: Eval of ready2UnackScript on readyKey; redis.Nil breaks the loop
ready2Unack(h) ==
    /\ pc[h] = "ready2Unack"
    /\ LET r == ready2UnackScript(ready, now + maxConsumeDuration)
       IN  /\ ready' = r.list
           /\ unack' = r.unack
           /\ IF r.msg = NoId
              THEN Goto(h, "unack2Retry", "none", NoId, 0, {})
              ELSE Goto(h, "callback", "ready", r.msg, fetchCount[h] + 1, {})
    /\ UNCHANGED <<now, pending, retry, retryCnt, garbage, msg, sender, fetchLimit,
                   sched, faults, hist>>

\* retry2Unack passing now, not now + maxConsumeDuration, as the retry time
retry2UnackNoDeadline(h) ==
    /\ pc[h] = "retry2Unack"
    /\ LET r == ready2UnackScript(retry, now)
       IN  /\ retry' = r.list
           /\ unack' = r.unack
           /\ IF r.msg = NoId
              THEN Return(h)
              ELSE /\ Goto(h, "callback", "retry", r.msg, fetchCount[h] + 1, {})
                   /\ UNCHANGED dueAtT1
    /\ UNCHANGED <<now, pending, ready, retryCnt, garbage, msg, sender, fetchLimit,
                   sched, faults, delivered, acked, collected, hitLimit, nackAge,
                   nackCnt, dropped, sigInFlight>>

\* retry2Unack: the same script on retryKey; redis.Nil ends consume
retry2Unack(h) ==
    /\ pc[h] = "retry2Unack"
    /\ LET r == ready2UnackScript(retry, now + maxConsumeDuration)
       IN  /\ retry' = r.list
           /\ unack' = r.unack
           /\ IF r.msg = NoId
              THEN Return(h)
              ELSE /\ Goto(h, "callback", "retry", r.msg, fetchCount[h] + 1, {})
                   /\ UNCHANGED dueAtT1
    /\ UNCHANGED <<now, pending, ready, retryCnt, garbage, msg, sender, fetchLimit,
                   sched, faults, delivered, acked, collected, hitLimit, nackAge, nackCnt, dropped, sigInFlight>>

\* q.callback returning false, not true, on redis.Nil: the id is nacked
callbackNilNacks(h) ==
    /\ pc[h] = "callback"
    /\ LET id == idStr[h]
       IN  IF PayloadExists(id)
           THEN /\ pc' = [pc EXCEPT ![h] = "cb"]
                /\ delivered' = [delivered EXCEPT ![id] = @ + 1]
                /\ nackCnt' = [nackCnt EXCEPT ![id] = None]
                /\ nackAge' = [nackAge EXCEPT ![id] = 0]
                /\ UNCHANGED dropped
           ELSE /\ pc' = [pc EXCEPT ![h] = "nack"]
                /\ dropped' = dropped \cup {id}
                /\ UNCHANGED <<delivered, nackCnt, nackAge>>
    /\ UNCHANGED <<now, store, sender, fetchLimit, sched, locals, faults, acked,
                   collected, dueAtT1, hitLimit, sigInFlight>>

\* q.callback: Get of the payload; redis.Nil returns (true, nil) without
\* calling q.cb, otherwise q.cb(payload) starts
callback(h) ==
    /\ pc[h] = "callback"
    /\ LET id == idStr[h]
       IN  IF PayloadExists(id)
           THEN /\ pc' = [pc EXCEPT ![h] = "cb"]
                /\ delivered' = [delivered EXCEPT ![id] = @ + 1]
                /\ nackCnt' = [nackCnt EXCEPT ![id] = None]
                /\ nackAge' = [nackAge EXCEPT ![id] = 0]
                /\ UNCHANGED dropped
           ELSE /\ pc' = [pc EXCEPT ![h] = "ackZRem"]
                /\ dropped' = dropped \cup {id}
                /\ UNCHANGED <<delivered, nackCnt, nackAge>>
    /\ UNCHANGED <<now, store, sender, fetchLimit, sched, locals, faults, acked,
                   collected, dueAtT1, hitLimit, sigInFlight>>

\* q.cb returns: true leads to ack, false to nack
cbReturn(h) ==
    /\ pc[h] = "cb"
    /\ \E ack \in BOOLEAN :
        pc' = [pc EXCEPT ![h] = IF ack THEN "ackZRem" ELSE "nack"]
    /\ UNCHANGED <<now, store, sender, fetchLimit, sched, locals, faults, hist>>

\* ack: ZRem unAckKey idStr
ackZRem(h) ==
    /\ pc[h] = "ackZRem"
    /\ unack' = ZRem(unack, idStr[h])
    /\ acked' = acked \cup {idStr[h]}
    /\ pc' = [pc EXCEPT ![h] = "ackDel"]
    /\ UNCHANGED <<now, pending, ready, retry, retryCnt, garbage, msg, sender,
                   fetchLimit, sched, locals, faults, delivered, collected, dueAtT1,
                   hitLimit, nackAge, nackCnt, dropped, sigInFlight>>

\* ack: Del of the payload key, result ignored
ackDel(h) ==
    /\ pc[h] = "ackDel"
    /\ msg' = Del(msg, {idStr[h]})
    /\ pc' = [pc EXCEPT ![h] = "ackHDel"]
    /\ UNCHANGED <<now, pending, ready, unack, retry, retryCnt, garbage, sender,
                   fetchLimit, sched, locals, faults, hist>>

\* ack: HDel retryCountKey idStr, result ignored; return nil
ackHDel(h) ==
    /\ pc[h] = "ackHDel"
    /\ retryCnt' = HDel(retryCnt, idStr[h])
    /\ Continue(h)
    /\ UNCHANGED <<now, pending, ready, unack, retry, garbage, msg, sender,
                   fetchLimit, sched, faults, delivered, acked, collected, nackAge, nackCnt, dropped, sigInFlight>>

\* ack: the Del or the HDel fails; ack ignores it and goes on
ackIgnoredError(h) ==
    /\ pc[h] \in {"ackDel", "ackHDel"}
    /\ faults < MaxFaults
    /\ faults' = faults + 1
    /\ IF pc[h] = "ackDel"
       THEN /\ pc' = [pc EXCEPT ![h] = "ackHDel"]
            /\ UNCHANGED <<locals, hitLimit, dueAtT1>>
       ELSE Continue(h)
    /\ UNCHANGED <<now, store, sender, fetchLimit, sched, delivered, acked, collected,
                   nackAge, nackCnt, dropped, sigInFlight>>

\* nack scoring the id with the ack deadline, now + maxConsumeDuration
nackDeadline(h) ==
    /\ pc[h] = "nack"
    /\ unack' = ZAdd(unack, now + maxConsumeDuration, idStr[h])
    /\ nackAge' = [nackAge EXCEPT ![idStr[h]] = 1]
    /\ nackCnt' = [nackCnt EXCEPT ![idStr[h]] = retryCnt[idStr[h]]]
    /\ Continue(h)
    /\ UNCHANGED <<now, pending, ready, retry, retryCnt, garbage, msg, sender,
                   fetchLimit, sched, faults, delivered, acked, collected, dropped,
                   sigInFlight>>

\* nack: ZAdd unAckKey now idStr
nack(h) ==
    /\ pc[h] = "nack"
    /\ unack' = ZAdd(unack, now, idStr[h])
    /\ nackAge' = [nackAge EXCEPT ![idStr[h]] = 1]
    /\ nackCnt' = [nackCnt EXCEPT ![idStr[h]] = retryCnt[idStr[h]]]
    /\ Continue(h)
    /\ UNCHANGED <<now, pending, ready, retry, retryCnt, garbage, msg, sender,
                   fetchLimit, sched, faults, delivered, acked, collected, dropped, sigInFlight>>

\* unack2Retry: Eval of unack2RetryScript with now
unack2Retry(h) ==
    /\ pc[h] = "unack2Retry"
    /\ LET r == unack2RetryScript(now)
       IN  /\ unack' = r.unack
           /\ retryCnt' = r.retryCnt
           /\ retry' = r.retry
           /\ garbage' = r.garbage
           /\ IF r.err
              THEN Return(h)
              ELSE /\ Goto(h, "gcSMembers", "none", NoId, 0, {})
                   /\ dueAtT1' = [dueAtT1 EXCEPT ![h] = {}]
    /\ UNCHANGED <<now, pending, ready, msg, sender, fetchLimit, sched, faults,
                   delivered, acked, collected, hitLimit, nackAge, nackCnt, dropped, sigInFlight>>

\* garbageCollect: SMembers garbageKey; nothing to do when it is empty
gcSMembers(h) ==
    /\ pc[h] = "gcSMembers"
    /\ IF garbage = {}
       THEN Goto(h, "retry2Unack", "retry", NoId, 0, {})
       ELSE Goto(h, "gcDel", "none", NoId, 0, garbage)
    /\ UNCHANGED <<now, store, sender, fetchLimit, sched, faults, hist>>

\* garbageCollect: Del of the payload keys of msgIds
gcDel(h) ==
    /\ pc[h] = "gcDel"
    /\ msg' = Del(msg, msgIds[h])
    /\ pc' = [pc EXCEPT ![h] = "gcSRem"]
    /\ UNCHANGED <<now, pending, ready, unack, retry, retryCnt, garbage, sender,
                   fetchLimit, sched, locals, faults, hist>>

\* garbageCollect deleting the garbage key, not only the ids it read
gcSRemAll(h) ==
    /\ pc[h] = "gcSRem"
    /\ garbage' = {}
    /\ collected' = collected \cup garbage
    /\ Goto(h, "retry2Unack", "retry", NoId, 0, {})
    /\ UNCHANGED <<now, pending, ready, unack, retry, retryCnt, msg, sender,
                   fetchLimit, sched, faults, delivered, acked, dueAtT1, hitLimit,
                   nackAge, nackCnt, dropped, sigInFlight>>

\* garbageCollect: SRem garbageKey msgIds; consume goes on to the retry loop
gcSRem(h) ==
    /\ pc[h] = "gcSRem"
    /\ garbage' = garbage \ msgIds[h]
    /\ collected' = collected \cup (garbage \cap msgIds[h])
    /\ Goto(h, "retry2Unack", "retry", NoId, 0, {})
    /\ UNCHANGED <<now, pending, ready, unack, retry, retryCnt, msg, sender,
                   fetchLimit, sched, faults, delivered, acked, dueAtT1, hitLimit,
                   nackAge, nackCnt, dropped, sigInFlight>>

\* the goroutine returning on the error of consume: the task ends
storeErrorEndsTask(h) ==
    /\ pc[h] \in CheckedCalls
    /\ faults < MaxFaults
    /\ faults' = faults + 1
    /\ Goto(h, "notify", "none", NoId, 0, {})
    /\ dueAtT1' = [dueAtT1 EXCEPT ![h] = {}]
    /\ UNCHANGED <<now, store, sender, fetchLimit, sched, delivered, acked, collected,
                   hitLimit, nackAge, nackCnt, dropped, sigInFlight>>

\* a store call of consume fails without effect: consume returns the error,
\* the ticker loop logs it and waits for the next tick
storeError(h) ==
    /\ pc[h] \in CheckedCalls
    /\ faults < MaxFaults
    /\ faults' = faults + 1
    /\ Return(h)
    /\ UNCHANGED <<now, store, sender, fetchLimit, sched, delivered, acked, collected,
                   hitLimit, nackAge, nackCnt, dropped, sigInFlight>>

\* ------------------------------------------------------------------ Next
Producer(i) ==
    SendScheduleMsg(i) \/ SendHSet(i) \/ SendZAdd(i) \/ SendError(i)

\* the caller's StartConsume and StopConsume, and the ticker loop of the task
Scheduler(h) ==
    \/ StartConsume(h) \/ StopConsume(h) \/ TickerStop(h)
    \/ SelectTick(h) \/ SelectClose(h) \/ SendDone(h)

\* the steps of consume
Consume(h) ==
    \/ pending2Ready(h) \/ ready2Unack(h) \/ retry2Unack(h)
    \/ callback(h) \/ cbReturn(h)
    \/ ackZRem(h) \/ ackDel(h) \/ ackHDel(h) \/ ackIgnoredError(h) \/ nack(h)
    \/ unack2Retry(h) \/ gcSMembers(h) \/ gcDel(h) \/ gcSRem(h)
    \/ storeError(h)

\* one handle consumes until the process ends; any number of producers send
Next ==
    \/ Tick
    \/ \E i \in Ids : Producer(i)
    \/ StartConsume("h1") \/ SelectTick("h1") \/ Consume("h1")

Spec == Init /\ [][Next]_vars

\* one handle on a store filled before, which its caller stops; nothing is sent
NextStop ==
    \/ Tick
    \/ Scheduler("h1") \/ Consume("h1")

SpecStop == InitRetry /\ [][NextStop]_vars

\* the same on any store the handle may find
SpecStopAny == Init /\ [][NextStop]_vars

\* two processes hold a handle to the same queue name
NextTwo ==
    \/ Tick
    \/ \E i \in Ids : Producer(i)
    \/ \E h \in Handles : StartConsume(h) \/ SelectTick(h) \/ Consume(h)

SpecTwo == InitRetry /\ [][NextTwo]_vars

\* the steps the consumer task takes by itself: the ticker loop and consume
\* without store errors; the ticker fires, store calls and the callback return
Task(h) ==
    \/ SelectTick(h) \/ SelectClose(h) \/ SendDone(h)
    \/ pending2Ready(h) \/ ready2Unack(h) \/ retry2Unack(h)
    \/ callback(h) \/ cbReturn(h)
    \/ ackZRem(h) \/ ackDel(h) \/ ackHDel(h) \/ nack(h)
    \/ unack2Retry(h) \/ gcSMembers(h) \/ gcDel(h) \/ gcSRem(h)

\* the running task is scheduled and the clock advances
FairSpec == Spec /\ WF_vars(Tick) /\ WF_vars(Task("h1"))

\* the same with StopConsume, which runs to its end once called
FairSpecStop ==
    SpecStop /\ WF_vars(Tick) /\ WF_vars(Task("h1")) /\ WF_vars(TickerStop("h1"))

\* ---------------------------------------------------------------- claims
\* in how many places of the position keys the id is visible
Positions(i) ==
    (IF pending[i] # None THEN 1 ELSE 0) + Occ(ready, i)
    + (IF unack[i] # None THEN 1 ELSE 0) + Occ(retry, i)
    + (IF i \in garbage THEN 1 ELSE 0)

\* C1 (delivery, as the first cycle that finds the message due): when one
\* handle, with no store error, has ended the ready drain loop of a cycle
\* without reaching fetchLimit, a message that was pending and due when that
\* cycle ran pending2Ready, and whose payload is still there, has been handed
\* to the callback.  Stated for a message that is alone in the queue.
C1_DueDelivered ==
    \A i \in Ids :
        ( /\ pc["h1"] = "unack2Retry"
          /\ \A j \in Ids \ {i} : sendPc[j] = "idle"
          /\ i \in dueAtT1["h1"]
          /\ faults = 0
          /\ ~hitLimit["h1"]
          /\ PayloadExists(i) )
        => delivered[i] >= 1

\* C2: no id is handed to the callback more than its initial retry count + 1
\* times, whatever the handles, the producers and the store errors do.
C2_DeliveryBound == \A i \in Ids : delivered[i] <= sendN[i] + 1

\* C2's case: a message with a retry budget has been delivered to the last
\* permitted time
C2_Witness ==
    \E i \in Ids : sendN[i] >= 1 /\ delivered[i] = sendN[i] + 1 /\ pc["h2"] # "off"

\* a message whose Send completed and that was neither acked nor collected
Live(i) == sendPc[i] = "done" /\ i \notin acked /\ i \notin collected

\* C3: with one consumer handle and concurrent producers, between store
\* commands every id whose Send completed and that has not been acked or
\* garbage-collected is in exactly one position key, exactly once.
C3_OnePosition == \A i \in Ids : Live(i) => Positions(i) = 1

\* C3's case: a Send is half done while one message is with the callback and
\* another has come back to retry
C3_Witness ==
    /\ pc["h1"] = "cb"
    /\ \E i \in Ids : sendPc[i] = "ZAdd"
    /\ \E i \in Ids : Live(i) /\ delivered[i] >= 2

\* C4 (its first half): with two handles on the queue name, also when the
\* callback of one outlasts the ack deadline, no id is visible in two position
\* keys or twice in a list.
C4_TwoHandlesSafe == \A i \in Ids : Positions(i) <= 1

\* C5: the callback is not invoked for a message before its delivery time;
\* an id leaves pending only in pending2Ready and only when its score <= now,
\* and pending2Ready leaves the ids with score > now in pending.
C5_NotBeforeTime ==
    /\ [](\A i \in Ids : delivered[i] > 0 => sendT[i] <= now)
    /\ [][\A i \in Ids :
            /\ (pending[i] # None /\ pending'[i] # pending[i])
                  => (pc["h1"] = "pending2Ready" /\ pending[i] <= now)
            /\ (pc["h1"] = "pending2Ready" /\ pending[i] # None /\ pending[i] > now)
                  => pending'[i] = pending[i]]_vars

\* C5's case: pending2Ready has run while a message was not yet due, and the
\* message is still pending
C5_Witness ==
    /\ pc["h1"] = "ready2Unack"
    /\ \E i \in Ids : pending[i] # None /\ pending[i] > now

\* the id is in no key of the queue
Absent(i) ==
    Positions(i) = 0 /\ retryCnt[i] = None /\ msg[i] = None

\* C6: a message sent with retry count N, alone in the queue and due, whose
\* callback keeps returning false, is in the end handed to the callback
\* exactly N + 1 times and then gone from every position key, from retry:cnt
\* and from the payload keys (one running handle; the obligation ends with a
\* store error, a second message, or an ack of the id).
C6_RetryExhaustion ==
    \A i \in Ids :
        ( /\ sendPc[i] = "done" /\ pending[i] # None /\ pending[i] <= now
          /\ \A j \in Ids \ {i} : sendPc[j] = "idle"
          /\ pc["h1"] # "off" )
        ~> ( \/ faults > 0
             \/ \E j \in Ids \ {i} : sendPc[j] # "idle"
             \/ i \in acked
             \/ delivered[i] = sendN[i] + 1 /\ Absent(i) )

\* C7: after the callback returned false for an id with remaining retry count
\* > 0, the id is handed to the callback again before the following cycle
\* ends (one handle, no store error, fetchLimit not reached, payload not
\* expired), and when it is, its retry count is one less than at the nack.
C7_NackRetry ==
    /\ [](\A i \in Ids :
            ~ ( /\ pc["h1"] = "select"
                /\ nackAge[i] = 2
                /\ nackCnt[i] > 0
                /\ faults = 0
                /\ ~hitLimit["h1"]
                /\ PayloadExists(i) ))
    /\ [][\A i \in Ids :
            (delivered'[i] = delivered[i] + 1 /\ nackCnt[i] # None /\ faults = 0)
                => (nackCnt[i] > 0 /\ retryCnt[i] = nackCnt[i] - 1)]_vars

\* C7's case: a nacked message is with the callback for the second time
C7_Witness ==
    \E i \in Ids :
        /\ pc["h1"] = "cb" /\ idStr["h1"] = i
        /\ delivered[i] = 2
        /\ retryCnt[i] = sendN[i] - 1
        /\ faults = 0

\* the handle is in the ack of this id
InAck(h, i) == idStr[h] = i /\ pc[h] \in {"ackZRem", "ackDel", "ackHDel"}

AckWrites(u, m, c, i) == <<ZRem(u, i), Del(m, {i}), HDel(c, i)>>

\* C9 as stated: when ack(id) has completed, the id is not in unack, has no
\* payload key and no retry:cnt entry.
C9_AsStated ==
    [][\A h \in Handles :
        (pc[h] = "ackHDel" /\ pc'[h] # "ackHDel")
            => /\ unack'[idStr[h]] = None
               /\ msg'[idStr[h]] = None
               /\ retryCnt'[idStr[h]] = None]_vars

\* C9, amended: each write of ack changes the entry of its id only; when
\* ack(id) has completed and its Del and HDel have not failed (their errors
\* are ignored), the id is not in unack, has no payload key and no retry:cnt
\* entry, and the three writes of a second ack(id) would leave that store as
\* it is.
C9_Ack ==
    [][\A h \in Handles :
        LET i == idStr[h]
        IN  /\ (pc[h] = "ackZRem" /\ pc'[h] = "ackDel")
                => /\ unack' = [unack EXCEPT ![i] = None]
                   /\ <<pending, ready, retry, retryCnt, garbage, msg>>'
                        = <<pending, ready, retry, retryCnt, garbage, msg>>
            /\ (pc[h] = "ackDel" /\ pc'[h] = "ackHDel" /\ faults' = faults)
                => /\ msg' = [msg EXCEPT ![i] = None]
                   /\ <<pending, ready, unack, retry, retryCnt, garbage>>'
                        = <<pending, ready, unack, retry, retryCnt, garbage>>
            /\ (pc[h] = "ackHDel" /\ pc'[h] # "ackHDel" /\ faults' = faults)
                => /\ retryCnt' = [retryCnt EXCEPT ![i] = None]
                   /\ <<pending, ready, unack, retry, garbage, msg>>'
                        = <<pending, ready, unack, retry, garbage, msg>>
                   /\ faults = 0
                        => /\ unack'[i] = None /\ msg'[i] = None
                           /\ AckWrites(unack', msg', retryCnt', i)
                                = <<unack', msg', retryCnt'>>
    ]_vars

\* C9's case: an ack after a callback has completed
C9_Witness ==
    \E i \in acked :
        /\ pc["h1"] = "retry2Unack" /\ fetchCount["h1"] > 0
        /\ delivered[i] >= 1 /\ faults = 0
        /\ unack[i] = None /\ msg[i] = None /\ retryCnt[i] = None

\* C10: after StopConsume (called once, after StartConsume, the caller
\* receiving from done) the task leaves its loop and sends one notification;
\* it does so only from the select, that is, after a cycle in flight has
\* returned, and nothing of the task runs after the notification.
C10_Shutdown ==
    /\ [](notified["h1"] <= 1 /\ (notified["h1"] = 1 <=> pc["h1"] = "exited"))
    /\ [][/\ (pc'["h1"] = "notify" /\ pc["h1"] # "notify") => pc["h1"] = "select"
          /\ pc["h1"] = "exited" =>
                /\ pc'["h1"] = "exited"
                /\ <<ready, unack, retry, garbage, delivered>>'
                     = <<ready, unack, retry, garbage, delivered>>]_vars
    /\ (phase["h1"] = "closeSent") ~> (pc["h1"] = "exited" /\ notified["h1"] = 1)

\* C10's case: the signal arrived while the callback was running, and the
\* task has ended
C10_Witness ==
    /\ pc["h1"] = "exited" /\ notified["h1"] = 1
    /\ "h1" \in sigInFlight
    /\ \E i \in Ids : delivered[i] > 0

\* a step of consume that returns an error: a failed store call, or a script
\* that raised
Failed(h) ==
    /\ pc'[h] # pc[h]
    /\ \/ pc[h] \in CheckedCalls /\ faults' = faults + 1
       \/ pc[h] = "pending2Ready" /\ pending2ReadyScript(<<"pending", "ready">>, now).err
       \/ pc[h] = "unack2Retry" /\ unack2RetryScript(now).err

\* C11: an error returned by a step of a consume cycle ends the cycle (the
\* task is back at the select, no later step of the cycle runs) and not the
\* task: from the select the task goes to pending2Ready of a new cycle, and
\* it leaves the loop only from the select, on the shutdown signal.
C11_ErrorAborts ==
    [][/\ Failed("h1") =>
            /\ pc'["h1"] = "select"
            /\ idStr'["h1"] = NoId /\ fetchCount'["h1"] = 0 /\ loop'["h1"] = "none"
       /\ (pc["h1"] = "select" /\ pc'["h1"] # "select")
            => \/ pc'["h1"] = "pending2Ready"
               \/ pc'["h1"] = "notify" /\ closeCh["h1"] = 1
       /\ (pc'["h1"] \in {"notify", "exited"} /\ pc["h1"] \notin {"notify", "exited"})
            => (pc["h1"] = "select" /\ closeCh["h1"] = 1)]_vars

\* C11's case: a store call failed after a hand-off, and a new cycle has begun
C11_Witness ==
    /\ faults = 1
    /\ pc["h1"] = "pending2Ready"
    /\ \E i \in Ids : unack[i] # None /\ unack[i] = now + maxConsumeDuration

\* C12: SendScheduleMsg writes the payload key, the retry:cnt entry and the
\* pending entry in this order and stops at the first write that fails: every
\* id in pending has a retry:cnt entry; a Send that is between two writes has
\* made the earlier ones only; an id whose Send failed or stands between two
\* writes is in no position key, and a failed Send writes nothing more.
C12_SendOrder ==
    /\ [](\A i \in Ids :
            /\ pending[i] # None => retryCnt[i] # None
            /\ sendPc[i] = "HSet" => (msg[i] # None /\ retryCnt[i] = None)
            /\ sendPc[i] = "ZAdd" => (msg[i] # None /\ retryCnt[i] = sendN[i])
            /\ sendPc[i] \in {"HSet", "ZAdd", "failed"} => Positions(i) = 0)
    /\ [][\A i \in Ids :
            sendPc[i] = "failed"
                => /\ sendPc'[i] = "failed"
                   /\ <<msg[i], retryCnt[i], pending[i]>>'
                        = <<msg[i], retryCnt[i], pending[i]>>]_vars

\* C12's case: one Send failed at its last write, another one completed
C12_Witness ==
    /\ \E i \in Ids : sendPc[i] = "failed" /\ msg[i] # None /\ retryCnt[i] # None
    /\ \E j \in Ids : sendPc[j] = "done" /\ pending[j] # None

\* C13: a pending2Ready step (keys pendingKey, readyKey; argument now) moves
\* every id of pending with score <= now to ready, once, and removes it from
\* pending; it leaves the ids with score > now in pending with their score
\* and changes no other key.  Stated for a message alone in the queue.
C13_Pending2Ready ==
    [][(pc["h1"] = "pending2Ready" /\ pc'["h1"] # "pending2Ready" /\ faults' = faults)
        => \A i \in Ids :
            (\A j \in Ids \ {i} : sendPc[j] = "idle")
            => /\ (pending[i] # None /\ pending[i] <= now)
                    => (pending'[i] = None /\ Occ(ready', i) = Occ(ready, i) + 1)
               /\ (pending[i] # None /\ pending[i] > now)
                    => (pending'[i] = pending[i] /\ ready' = ready)
               /\ <<unack, retry, retryCnt, garbage, msg>>'
                    = <<unack, retry, retryCnt, garbage, msg>>]_vars

\* the ids of unack whose score is <= t
Expired(t) == {i \in Ids : unack[i] # None /\ unack[i] <= t}

\* C14: an unack2Retry step at now, when every id of unack with score <= now
\* has a retry:cnt entry: such an id with count > 0 has its count decremented
\* by 1 and is pushed once onto retry; with count <= 0 its retry:cnt entry is
\* deleted and it is added to garbage; none of them remains in unack; the ids
\* of unack with score > now, their counts, and pending, ready and the
\* payload keys are unchanged.
C14_Unack2Retry ==
    [][( /\ pc["h1"] = "unack2Retry" /\ pc'["h1"] # "unack2Retry"
         /\ faults' = faults
         /\ \A i \in Expired(now) : retryCnt[i] # None )
        => /\ \A i \in Expired(now) :
                /\ unack'[i] = None
                /\ retryCnt[i] > 0 =>
                      /\ retryCnt'[i] = retryCnt[i] - 1
                      /\ Occ(retry', i) = Occ(retry, i) + 1
                      /\ (i \in garbage') = (i \in garbage)
                /\ retryCnt[i] <= 0 =>
                      /\ retryCnt'[i] = None
                      /\ i \in garbage'
                      /\ Occ(retry', i) = Occ(retry, i)
           /\ \A i \in Ids \ Expired(now) :
                /\ unack'[i] = unack[i] /\ retryCnt'[i] = retryCnt[i]
                /\ Occ(retry', i) = Occ(retry, i)
                /\ (i \in garbage') = (i \in garbage)
           /\ Len(retry') = Len(retry) + Cardinality({i \in Expired(now) : retryCnt[i] > 0})
           /\ <<pending, ready, msg>>' = <<pending, ready, msg>>
           /\ pc'["h1"] = "gcSMembers"]_vars

\* C14's case: one unack2Retry has moved an id to retry and another to garbage
C14_Witness ==
    /\ pc["h1"] = "gcSMembers" /\ faults = 0 /\ acked = {} /\ collected = {}
    /\ \A i \in Ids : unack[i] = None /\ delivered[i] = 0
    /\ \E i, j \in Ids :
        /\ Occ(retry, i) = 1 /\ sendN[i] > 0 /\ retryCnt[i] = sendN[i] - 1
        /\ j \in garbage /\ retryCnt[j] = None /\ msg[j] # None
    /\ now > 0

\* C15: an unack2Retry step at now, when some id of unack with score <= now
\* has no retry:cnt entry, ends without error (the cycle goes on to
\* garbageCollect), puts every such id into garbage, and leaves no id of the
\* batch in unack.  Stated for runs without a failed store call.
C15_MissingCount ==
    [][\A h \in Handles :
        ( /\ pc[h] = "unack2Retry" /\ pc'[h] # "unack2Retry"
          /\ faults' = 0
          /\ \E i \in Expired(now) : retryCnt[i] = None )
        => /\ pc'[h] = "gcSMembers"
           /\ \A i \in Expired(now) :
                /\ unack'[i] = None
                /\ retryCnt[i] = None => i \in garbage']_vars

\* C16 as stated: no step writes into unack a score other than the clock of
\* that step + maxConsumeDuration.
C16_AsStated ==
    [][\A i \in Ids :
        (unack'[i] # unack[i] /\ unack'[i] # None)
            => unack'[i] = now + maxConsumeDuration]_vars

\* C16, amended: a step that writes a score into unack is a hand-off
\* (ready2Unack, retry2Unack) of that id, writing the clock of the step +
\* maxConsumeDuration, or a nack of that id, writing the clock of the step.
C16_UnackScore ==
    [][\A i \in Ids :
        (unack'[i] # unack[i] /\ unack'[i] # None)
            => \E h \in Handles :
                \/ /\ pc[h] \in {"ready2Unack", "retry2Unack"}
                   /\ pc'[h] = "callback" /\ idStr'[h] = i
                   /\ unack'[i] = now + maxConsumeDuration
                \/ /\ pc[h] = "nack" /\ idStr[h] = i /\ pc'[h] # "nack"
                   /\ unack'[i] = now]_vars

\* C16's case: an id handed off at one second has been nacked at the next
C16_Witness ==
    \E i \in Ids :
        /\ nackAge[i] = 1 /\ unack[i] = now /\ now > 0
        /\ delivered[i] = 1 /\ faults = 0

\* C17, the retry drain loop: an id nacked in the running cycle (nackAge 1) is
\* not handed to the callback again, not taken out of unack and not put into
\* retry or garbage before the next tick starts the next cycle (one handle).
C17_NackedStays ==
    [][\A i \in Ids :
        nackAge[i] = 1 =>
            /\ delivered'[i] = delivered[i]
            /\ unack'[i] = unack[i]
            /\ Occ(retry', i) = Occ(retry, i)
            /\ (i \in garbage' <=> i \in garbage)]_vars

C18_FetchLimit ==
    \A h \in Handles :
        loop[h] \in {"ready", "retry"} => fetchCount[h] <= fetchLimit

\* C18 for fetchLimit >= 1, and one id per loop for fetchLimit 0: what the
\* loops do, the limit being tested after the id was handled
C18_LimitOrOne ==
    /\ \A h \in Handles :
        loop[h] \in {"ready", "retry"} =>
            fetchCount[h] <= (IF fetchLimit = 0 THEN 1 ELSE fetchLimit)
    /\ [][\A h \in Handles :
            /\ (pc[h] = "retry2Unack" /\ pc'[h] # "retry2Unack"
                    /\ faults' = faults /\ retry = <<>>)
                  => (pc'[h] = "select" /\ unack' = unack)
            /\ (pc[h] = "ready2Unack" /\ pc'[h] # "ready2Unack"
                    /\ faults' = faults /\ ready = <<>>)
                  => (pc'[h] = "unack2Retry" /\ unack' = unack)]_vars

\* the retry drain loop stopped by a limit of 1 with an id left in retry
C18_Witness ==
    /\ fetchLimit = 1 /\ hitLimit["h1"] /\ pc["h1"] = "select"
    /\ retry # <<>>
    /\ faults = 0

\* C19: with one handle, in every reachable state no id with a retry:cnt
\* entry is in garbage, and every id in pending, ready, unack or retry has a
\* retry:cnt entry between 0 and the count it was sent with; an entry never
\* increases.
C19_RetryCount ==
    /\ [](\A i \in Ids :
            /\ retryCnt[i] # None => i \notin garbage
            /\ (pending[i] # None \/ Occ(ready, i) > 0 \/ unack[i] # None
                    \/ Occ(retry, i) > 0)
                  => (retryCnt[i] # None /\ retryCnt[i] >= 0
                        /\ retryCnt[i] <= sendN[i]))
    /\ [][\A i \in Ids :
            (retryCnt[i] # None /\ retryCnt'[i] # None)
                => retryCnt'[i] <= retryCnt[i]]_vars

\* C19's case: unack2Retry has put one nacked id back into retry with its count
\* reduced to 0 and another, whose count was 0, into garbage
C19_Witness ==
    \E i, j \in Ids :
        /\ pc["h1"] = "gcSMembers"
        /\ Occ(retry, i) = 1 /\ retryCnt[i] = 0 /\ sendN[i] = 1
        /\ delivered[i] = 1
        /\ j \in garbage /\ retryCnt[j] = None /\ delivered[j] = 1

\* the handle is in garbageCollect, between its calls
InGC(h) == pc[h] \in {"gcSMembers", "gcDel", "gcSRem"}

\* C20: with two handles interleaving, (1) an id leaves garbage only by the
\* SRem of a handle that read it with SMembers, and by then its payload key is
\* deleted, so an id added after the read stays; (2) a step of garbageCollect
\* leaves pending, ready, unack, retry and retry:cnt alone and removes from
\* garbage exactly the ids it read; (3) unack2Retry never puts an id that is
\* or was in garbage into unack or retry and never gives it a retry:cnt entry.
C20_GarbageCollect ==
    [][/\ \A i \in Ids :
            (i \in garbage /\ i \notin garbage')
                => \E h \in Handles :
                        /\ pc[h] = "gcSRem" /\ pc'[h] # "gcSRem"
                        /\ i \in msgIds[h]
                        /\ msg[i] = None
       /\ \A h \in Handles :
            (InGC(h) /\ pc'[h] # pc[h])
                => /\ UNCHANGED <<pending, ready, unack, retry, retryCnt>>
                   /\ garbage' = IF pc[h] = "gcSRem" /\ faults' = faults
                                 THEN garbage \ msgIds[h] ELSE garbage
       /\ \A h \in Handles, i \in garbage \cup collected :
            (pc[h] = "unack2Retry" /\ pc'[h] # "unack2Retry")
                => /\ retryCnt[i] = None /\ retryCnt'[i] = None
                   /\ Occ(retry', i) = Occ(retry, i)
                   /\ unack[i] = None => unack'[i] = None]_vars

\* C20's case: h1 is before its SRem with the ids it read and whose payloads
\* it deleted, another id was added to garbage by unack2Retry since, and h2 is
\* in its own garbageCollect having read both
C20_Witness ==
    \E i, j \in Ids :
        /\ i # j
        /\ pc["h1"] = "gcSRem" /\ msgIds["h1"] = {i} /\ msg[i] = None
        /\ j \in garbage /\ i \in garbage
        /\ pc["h2"] = "gcDel" /\ msgIds["h2"] = {i, j}

====
